---- MODULE Spec2Model ----
(***************************************************************************)
(* Model of src/app.py: the two Flask handlers text_to_speech and          *)
(* speech_to_text, the temporary-file discipline of speech_to_text, and    *)
(* the process-wide credential openai.api_key with the Streamlit sidebar   *)
(* action that rewrites it.                                                *)
(*                                                                         *)
(* Environment assumptions (library and OS behaviour the source relies     *)
(* on): request.json raises on an unparsable JSON body; a list or dict     *)
(* supports `in`, only a dict supports .get; tempfile creates a file under *)
(* a name that does not exist yet; creating, writing and opening a file    *)
(* may fail; os.unlink of an existing file and close() release the         *)
(* resource; the remote provider either returns a value or raises.         *)
(***************************************************************************)
EXTENDS Integers, Sequences, FiniteSets, TLC

\* ---------------------------------------------------------------- bounds
MaxLen == 3
NReq == 2

\* ------------------------------------------------------------ data values
ByteVals == {0, 97, 255}
ByteSeqs == UNION {[1..n -> ByteVals] : n \in 0..MaxLen}

Slots == 1..NReq
TempNames == 1..NReq

\* base64 characters: 0..63 are the alphabet by index, Pad is '=',
\* Junk is any character outside the alphabet (a newline, a blank)
Pad == 64
Junk == 65

RECURSIVE B64Encode(_)
B64Encode(b) ==
    IF Len(b) = 0 THEN <<>>
    ELSE IF Len(b) = 1 THEN
        << b[1] \div 4, (b[1] % 4) * 16, Pad, Pad >>
    ELSE IF Len(b) = 2 THEN
        << b[1] \div 4, (b[1] % 4) * 16 + (b[2] \div 16), (b[2] % 16) * 4, Pad >>
    ELSE
        << b[1] \div 4, (b[1] % 4) * 16 + (b[2] \div 16),
           (b[2] % 16) * 4 + (b[3] \div 64), b[3] % 64 >>
        \o B64Encode(SubSeq(b, 4, Len(b)))

\* binascii.a2b_base64 in its default (non-strict) mode, character by
\* character: quad is the position in the current group of four, left the
\* bits carried over, pads the padding seen since the last data character.
RECURSIVE A2B(_, _, _, _, _, _)
A2B(s, i, quad, left, pads, out) ==
    IF i > Len(s) THEN
        IF quad # 0 THEN [ok |-> FALSE, data |-> <<>>]
        ELSE [ok |-> TRUE, data |-> out]
    ELSE IF s[i] = Pad THEN
        IF quad >= 2 /\ quad + pads + 1 >= 4 THEN [ok |-> TRUE, data |-> out]
        ELSE A2B(s, i + 1, quad, left, IF quad >= 2 THEN pads + 1 ELSE pads, out)
    ELSE IF s[i] >= 64 THEN A2B(s, i + 1, quad, left, pads, out)
    ELSE IF quad = 0 THEN A2B(s, i + 1, 1, s[i], 0, out)
    ELSE IF quad = 1 THEN
        A2B(s, i + 1, 2, s[i] % 16, 0, Append(out, left * 4 + (s[i] \div 16)))
    ELSE IF quad = 2 THEN
        A2B(s, i + 1, 3, s[i] % 4, 0, Append(out, left * 16 + (s[i] \div 4)))
    ELSE A2B(s, i + 1, 0, 0, 0, Append(out, left * 64 + s[i]))

B64DecodeDroppingTail(s) ==
    LET d == A2B(s, 1, 0, 0, 0, <<>>)
    IN  [ok |-> d.ok,
         data |-> IF Len(d.data) = 0 THEN d.data
                  ELSE SubSeq(d.data, 1, Len(d.data) - 1)]

B64Decode(s) == A2B(s, 1, 0, 0, 0, <<>>)

\* ------------------------------------------------------------- requests
\* A request as Flask presents it.  body is the shape of the payload:
\*   "none"       no body, no content type
\*   "nonjson"    a body whose content type is not JSON
\*   "unparsable" JSON content type, body that does not parse (or is empty)
\*   "null"       the JSON value null
\*   "array"      a JSON array whose string elements are keys
\*   "object"     a JSON object with the fields named in keys
\*   "multipart"  a multipart form whose file fields are named in keys
\* text, voice: the JSON fields of that name ("" when absent);
\* payload: the audio_base64 characters or the uploaded file's bytes;
\* isnull: the audio_base64 field is JSON null.
Req(e, b, k, t, v, p, n) ==
    [endpoint |-> e, body |-> b, keys |-> k, text |-> t, voice |-> v,
     payload |-> p, isnull |-> n]

NoReq == Req("none", "none", {}, "", "", <<>>, FALSE)

Texts == {"", "hi"}
Voices == {"nova", "bogus"}

TtsRequests ==
    {Req("tts", b, {}, "", "", <<>>, FALSE) : b \in {"nonjson", "unparsable", "null"}}
    \cup {Req("tts", "array", k, "", "", <<>>, FALSE) : k \in {{}, {"text"}, {"x"}}}
    \cup {q \in {Req("tts", "object", k, t, v, <<>>, FALSE) :
                    k \in SUBSET {"text", "voice"}, t \in Texts, v \in Voices \cup {""}} :
            /\ ("text" \notin q.keys => q.text = "")
            /\ ("voice" \in q.keys <=> q.voice # "")}

\* well-formed encodings of every byte sequence, and strings that are not
InvalidB64 == { <<16>>, <<16, 16, 16>>, <<16, 16, Pad>>, <<16, 16, Pad, 16>> }
OddB64 == { <<16, Junk, 16, Pad, Pad>>, <<16, 16, Pad, Pad, 16, 16, Pad, Pad>> }
B64Inputs == {B64Encode(b) : b \in ByteSeqs} \cup InvalidB64 \cup OddB64

Uploads == { <<>>, <<97, 255>> }

SttRequests ==
    {Req("stt", b, {}, "", "", <<>>, FALSE) : b \in {"none", "nonjson", "unparsable", "null"}}
    \cup {Req("stt", "array", k, "", "", <<>>, FALSE) : k \in {{}, {"audio_base64"}, {"x"}}}
    \cup {Req("stt", "object", k, "", "", <<>>, FALSE) : k \in {{}, {"file_type"}}}
    \cup {Req("stt", "object", {"audio_base64"}, "", "", p, FALSE) : p \in B64Inputs}
    \cup {Req("stt", "object", {"audio_base64", "file_type"}, "", "",
               B64Encode(<<97, 0, 255>>), FALSE)}
    \cup {Req("stt", "object", {"audio_base64"}, "", "", <<>>, TRUE)}
    \cup {Req("stt", "multipart", {}, "", "", <<>>, FALSE)}
    \cup {Req("stt", "multipart", {"other"}, "", "", <<97>>, FALSE)}
    \cup {Req("stt", "multipart", k, "", "", p, FALSE) :
            k \in {{"audio_file"}, {"audio_file", "other"}}, p \in Uploads}

\* the requests of the concurrent specification: two payloads that differ
ConcRequests ==
    { Req("stt", "object", {"audio_base64"}, "", "", B64Encode(<<97>>), FALSE),
      Req("stt", "multipart", {"audio_file"}, "", "", <<255, 0>>, FALSE) }

\* request.is_json: the content type names JSON
IsJson(q) == q.body \in {"unparsable", "null", "array", "object"}

\* request.json raises (BadRequest) and the handler's except clause sees it
JsonRaises(q) == q.body = "unparsable"

\* truth value of the parsed JSON: None, {} and [] are false
Truthy(q) == q.body \in {"array", "object"} /\ q.keys # {}

\* `key in data` for a dict (its keys) or a list (its elements)
Has(q, key) == key \in q.keys

\* ------------------------------------------------------------ responses
Resp(st, ct, dl, b, f, e, ty, tx) ==
    [status |-> st, ctype |-> ct, download_name |-> dl, body |-> b,
     fields |-> f, error |-> e, type |-> ty, text |-> tx]

NoResp == Resp(0, "", "", <<>>, {}, "", "", "")

Exc(ty, m) == [type |-> ty, msg |-> m]
NoExc == Exc("", "")

\* jsonify({"error": ...}), 400
MissingText == Resp(400, "application/json", "", <<>>, {"error"},
                    "Missing 'text' parameter", "", "")

NoAudio == Resp(400, "application/json", "", <<>>, {"error"},
                "No audio file provided. Send a form with 'audio_file' or JSON with 'audio_base64'",
                "", "")

TtsExceptSwallow(e) ==
    Resp(500, "application/json", "", <<>>, {"error"}, "Internal Server Error", "", "")

\* text_to_speech: except Exception as e
TtsExcept(e) ==
    Resp(500, "application/json", "", <<>>, {"error"}, e.msg, "", "")

\* speech_to_text: except Exception as e
SttExcept(e) ==
    Resp(500, "application/json", "", <<>>, {"error", "type"}, e.msg, e.type, "")

\* send_file(io.BytesIO(audio_data), mimetype='audio/mpeg', ...)
SendFile(audio) ==
    Resp(200, "audio/mpeg", "speech.mp3", audio, {}, "", "", "")

\* jsonify({"text": transcript.text})
TextJson(t) == Resp(200, "application/json", "", <<>>, {"text"}, "", "", t)

OtherVoice == "echo"

\* data.get('voice', 'alloy')
DefaultVoice == "alloy"

\* ------------------------------------------------------ remote provider
RemoteAudio == { <<>>, <<255, 0, 97>> }
Transcripts == { "hello world" }
RemoteErrors == { Exc("openai.RateLimitError", "rate limit"),
                  Exc("openai.AuthenticationError", "bad key") }

\* what one request's remote call was given and what it answered: n counts
\* the calls, key is openai.api_key at the call, voice and input the
\* arguments of speech.create, stream the bytes read from file=audio_file,
\* existed and open the state of the temporary file and of its read handle
Rem(n, o, k, v, i, s, ex, op, a, t, e) ==
    [n |-> n, outcome |-> o, key |-> k, voice |-> v, input |-> i, stream |-> s,
     existed |-> ex, open |-> op, audio |-> a, transcript |-> t, err |-> e]

NoRemote == Rem(0, "none", "", "", "", <<>>, FALSE, FALSE, <<>>, "", NoExc)

\* ------------------------------------------------------------ credential
NoKey == "None"
EnvKeys == {NoKey, "sk-env"}
KeyInputs == {"", "sk-new"}

\* ----------------------------------------------------------- file system
NoFile == [exists |-> FALSE, owner |-> 0, content |-> <<>>]


AnyName(fs) == TempNames

\* tempfile.NamedTemporaryFile: a name under which no file exists
FreeNames(fs) == {n \in TempNames : ~fs[n].exists}

KeepFile(fs, n) == fs

\* os.unlink(temp_filename)
Unlink(fs, n) == [fs EXCEPT ![n] = NoFile]

LeaveOpen(af, hs) == hs

\* finally: audio_file.close() when audio_file is not None
FinallyClose(af, hs) == IF af = "reader" THEN hs \ {"reader"} ELSE hs

SttRetry(n) == IF n < 2 THEN "stt_remote" ELSE "stt_finally"

\* where control goes when transcriptions.create raises: the except clause
\* and then the finally clause, never back to the call
SttAfterFailure(n) == "stt_finally"

EnvKept(env, k) == env

\* os.environ["OPENAI_API_KEY"] = api_key
EnvAfterUpdate(env, k) == k

\* -------------------------------------------------------------- state
VARIABLES
    pc,             \* per request slot: where its handler stands
    req,            \* per slot: the request being handled
    temp_filename,  \* per slot: speech_to_text's temp_filename (0 is None)
    audio_file,     \* per slot: speech_to_text's audio_file: "None", "upload", "reader"
    audio_data,     \* per slot: the decoded bytes
    handles,        \* per slot: the file handles it holds open
    files,          \* the temporary directory: name -> file
    resp,           \* per slot: the response being returned
    remote,         \* per slot: the remote call made for the request
    failed_before,  \* a remote call has failed for an earlier request
    api_key,        \* openai.api_key
    environ         \* os.environ["OPENAI_API_KEY"]

vars == << pc, req, temp_filename, audio_file, audio_data, handles, files,
           resp, remote, failed_before, failed_before, api_key, environ >>

Init ==
    /\ pc = [r \in Slots |-> "idle"]
    /\ req = [r \in Slots |-> NoReq]
    /\ temp_filename = [r \in Slots |-> 0]
    /\ audio_file = [r \in Slots |-> "None"]
    /\ audio_data = [r \in Slots |-> <<>>]
    /\ handles = [r \in Slots |-> {}]
    /\ files = [n \in TempNames |-> NoFile]
    /\ resp = [r \in Slots |-> NoResp]
    /\ remote = [r \in Slots |-> NoRemote]
    /\ failed_before = FALSE
    /\ environ \in EnvKeys
    /\ api_key = environ

\* a server thread takes a new request: the handler's locals start afresh
Fresh(r, q) ==
    /\ pc[r] = "idle"
    /\ req' = [req EXCEPT ![r] = q]
    /\ remote' = [remote EXCEPT ![r] = NoRemote]

\* ----------------------------------------------------- text_to_speech
\* lines 41-50: parse, validate, read text and voice
TtsReceive(r, q) ==
    /\ Fresh(r, q)
    /\ \E old \in BOOLEAN :
        LET raises == JsonRaises(q) \/ (q.body = "nonjson" /\ ~old)
            missing == ~Truthy(q) \/ ~Has(q, "text")
        IN  IF raises THEN
                /\ resp' = [resp EXCEPT ![r] = TtsExcept(Exc("BadRequest", "bad request"))]
                /\ pc' = [pc EXCEPT ![r] = "done"]
            ELSE IF missing THEN
                /\ resp' = [resp EXCEPT ![r] = MissingText]
                /\ pc' = [pc EXCEPT ![r] = "done"]
            ELSE IF q.body = "array" THEN
                /\ resp' = [resp EXCEPT ![r] =
                        TtsExcept(Exc("AttributeError", "'list' object has no attribute 'get'"))]
                /\ pc' = [pc EXCEPT ![r] = "done"]
            ELSE
                /\ resp' = [resp EXCEPT ![r] = NoResp]
                /\ pc' = [pc EXCEPT ![r] = "tts_remote"]
    /\ UNCHANGED << temp_filename, audio_file, audio_data, handles, files,
                    failed_before, api_key, environ >>

\* lines 53-78: the call to speech.create and the response
TtsRemote(r) ==
    /\ pc[r] = "tts_remote"
    /\ LET q == req[r]
           text == q.text
           voice == IF Has(q, "voice") THEN q.voice ELSE DefaultVoice
       IN  \/ \E a \in RemoteAudio :
                /\ remote' = [remote EXCEPT ![r] =
                        Rem(remote[r].n + 1, "ok", api_key, voice, text, <<>>,
                            FALSE, FALSE, a, "", NoExc)]
                /\ resp' = [resp EXCEPT ![r] = SendFile(a)]
           \/ \E e \in RemoteErrors :
                /\ remote' = [remote EXCEPT ![r] =
                        Rem(remote[r].n + 1, "fail", api_key, voice, text, <<>>,
                            FALSE, FALSE, <<>>, "", e)]
                /\ resp' = [resp EXCEPT ![r] = TtsExcept(e)]
    /\ pc' = [pc EXCEPT ![r] = "done"]
    /\ UNCHANGED << req, temp_filename, audio_file, audio_data, handles, files,
                    failed_before, api_key, environ >>

\* ----------------------------------------------------- speech_to_text
\* the except clause (lines 138-140) taken from a local failure: the
\* response is set and control passes to the finally clause
SttRaise(r, e) ==
    /\ resp' = [resp EXCEPT ![r] = SttExcept(e)]
    /\ pc' = [pc EXCEPT ![r] = "stt_finally"]

\* lines 86-111 and 121-123: choose the branch, decode the base64 string
SttReceive(r, q) ==
    /\ Fresh(r, q)
    /\ temp_filename' = [temp_filename EXCEPT ![r] = 0]
    /\ IF q.body = "multipart" /\ q.keys # {} /\ Has(q, "audio_file") THEN
            /\ audio_file' = [audio_file EXCEPT ![r] = "upload"]
            /\ audio_data' = [audio_data EXCEPT ![r] = <<>>]
            /\ resp' = [resp EXCEPT ![r] = NoResp]
            /\ pc' = [pc EXCEPT ![r] = "stt_create"]
       ELSE
            /\ audio_file' = [audio_file EXCEPT ![r] = "None"]
            /\ IF IsJson(q) /\ JsonRaises(q) THEN
                    /\ audio_data' = [audio_data EXCEPT ![r] = <<>>]
                    /\ SttRaise(r, Exc("BadRequest", "bad request"))
               ELSE IF IsJson(q) /\ Truthy(q) /\ Has(q, "audio_base64") THEN
                    IF q.body = "array" THEN
                        /\ audio_data' = [audio_data EXCEPT ![r] = <<>>]
                        /\ SttRaise(r, Exc("AttributeError",
                                           "'list' object has no attribute 'get'"))
                    ELSE IF q.isnull THEN
                        /\ audio_data' = [audio_data EXCEPT ![r] = <<>>]
                        /\ SttRaise(r, Exc("TypeError", "argument should be bytes-like"))
                    ELSE IF ~B64Decode(q.payload).ok THEN
                        /\ audio_data' = [audio_data EXCEPT ![r] = <<>>]
                        /\ SttRaise(r, Exc("binascii.Error", "Incorrect padding"))
                    ELSE
                        /\ audio_data' = [audio_data EXCEPT ![r] = B64Decode(q.payload).data]
                        /\ resp' = [resp EXCEPT ![r] = NoResp]
                        /\ pc' = [pc EXCEPT ![r] = "stt_create"]
               ELSE
                    /\ audio_data' = [audio_data EXCEPT ![r] = <<>>]
                    /\ resp' = [resp EXCEPT ![r] = NoAudio]
                    /\ pc' = [pc EXCEPT ![r] = "stt_finally"]
    /\ UNCHANGED << handles, files, failed_before, api_key, environ >>

\* lines 96-97 and 114-115: NamedTemporaryFile(delete=False) creates the
\* file and leaves its writer open; temp_filename takes its name
SttCreate(r) ==
    /\ pc[r] = "stt_create"
    /\ \/ /\ \E n \in FreeNames(files) :
                /\ files' = [files EXCEPT ![n] =
                        [exists |-> TRUE, owner |-> r, content |-> <<>>]]
                /\ temp_filename' = [temp_filename EXCEPT ![r] = n]
          /\ handles' = [handles EXCEPT ![r] = @ \cup {"writer"}]
          /\ pc' = [pc EXCEPT ![r] = "stt_write"]
          /\ UNCHANGED resp
       \/ /\ SttRaise(r, Exc("OSError", "cannot create temporary file"))
          /\ UNCHANGED << files, temp_filename, handles >>
    /\ UNCHANGED << req, audio_file, audio_data, remote, failed_before, api_key, environ >>

\* lines 98 and 116, and the end of the with block: the bytes go into the
\* file (audio_file.save reopens it by name, temp_file.write uses the
\* writer) and the writer is closed, also when the write raises
SttWrite(r) ==
    /\ pc[r] = "stt_write"
    /\ LET n == temp_filename[r]
           upload == audio_file[r] = "upload"
           bytes == IF upload THEN req[r].payload ELSE audio_data[r]
       IN  \/ /\ files' = [files EXCEPT ![n] =
                        IF files[n].exists THEN [@ EXCEPT !.content = bytes]
                        ELSE IF upload
                             THEN [exists |-> TRUE, owner |-> r, content |-> bytes]
                             ELSE @]
              /\ pc' = [pc EXCEPT ![r] = "stt_open"]
              /\ UNCHANGED resp
           \/ /\ SttRaise(r, Exc("OSError", "No space left on device"))
              /\ UNCHANGED files
    /\ handles' = [handles EXCEPT ![r] = @ \ {"writer"}]
    /\ UNCHANGED << req, temp_filename, audio_file, audio_data, remote,
                    failed_before, api_key, environ >>

\* lines 101 and 119: audio_file = open(temp_filename, 'rb')
SttOpen(r) ==
    /\ pc[r] = "stt_open"
    /\ \/ /\ files[temp_filename[r]].exists
          /\ audio_file' = [audio_file EXCEPT ![r] = "reader"]
          /\ handles' = [handles EXCEPT ![r] = @ \cup {"reader"}]
          /\ pc' = [pc EXCEPT ![r] = "stt_remote"]
          /\ UNCHANGED resp
       \/ /\ SttRaise(r, Exc("OSError", "cannot open file"))
          /\ UNCHANGED << audio_file, handles >>
    /\ UNCHANGED << req, temp_filename, audio_data, files, remote, failed_before, api_key, environ >>

\* lines 127-140: the call to transcriptions.create, which reads the
\* stream; on success the reader is closed (line 133) and the transcript
\* returned, on failure the except clause answers
SttRemote(r) ==
    /\ pc[r] = "stt_remote"
    /\ LET n == temp_filename[r]
           f == files[n]
           isopen == "reader" \in handles[r]
       IN  \/ \E t \in Transcripts :
                /\ remote' = [remote EXCEPT ![r] =
                        Rem(remote[r].n + 1, "ok", api_key, "", "", f.content,
                            f.exists, isopen, <<>>, t, NoExc)]
                /\ handles' = [handles EXCEPT ![r] = @ \ {"reader"}]
                /\ resp' = [resp EXCEPT ![r] = TextJson(t)]
                /\ pc' = [pc EXCEPT ![r] = "stt_finally"]
           \/ \E e \in RemoteErrors :
                /\ remote' = [remote EXCEPT ![r] =
                        Rem(remote[r].n + 1, "fail", api_key, "", "", f.content,
                            f.exists, isopen, <<>>, "", e)]
                /\ handles' = handles
                /\ resp' = [resp EXCEPT ![r] = SttExcept(e)]
                /\ pc' = [pc EXCEPT ![r] = SttAfterFailure(remote[r].n + 1)]
    /\ UNCHANGED << req, temp_filename, audio_file, audio_data, files,
                    failed_before, api_key, environ >>

\* lines 142-154: the finally clause, then the response leaves the handler
SttFinally(r) ==
    /\ pc[r] = "stt_finally"
    /\ handles' = [handles EXCEPT ![r] = FinallyClose(audio_file[r], @)]
    /\ files' = IF temp_filename[r] # 0 /\ files[temp_filename[r]].exists
                THEN Unlink(files, temp_filename[r])
                ELSE files
    /\ pc' = [pc EXCEPT ![r] = "done"]
    /\ UNCHANGED << req, temp_filename, audio_file, audio_data, resp, remote,
                    failed_before, api_key, environ >>

\* lines 191-195: the server sends the response; the thread and the
\* handler's locals are free for the next request
Served(r) ==
    /\ pc[r] = "done"
    /\ pc' = [pc EXCEPT ![r] = "idle"]
    /\ req' = [req EXCEPT ![r] = NoReq]
    /\ resp' = [resp EXCEPT ![r] = NoResp]
    /\ remote' = [remote EXCEPT ![r] = NoRemote]
    /\ temp_filename' = [temp_filename EXCEPT ![r] = 0]
    /\ audio_file' = [audio_file EXCEPT ![r] = "None"]
    /\ audio_data' = [audio_data EXCEPT ![r] = <<>>]
    /\ failed_before' = (failed_before \/ remote[r].outcome = "fail")
    /\ UNCHANGED << handles, files, api_key, environ >>

\* ------------------------------------------------- the Streamlit script
\* lines 306-310: the sidebar's "Update API Key" button
UpdateAPIKey(k) ==
    /\ environ' = EnvAfterUpdate(environ, k)
    /\ api_key' = k
    /\ UNCHANGED << pc, req, temp_filename, audio_file, audio_data, handles,
                    files, resp, remote, failed_before >>

\* lines 28-29: Streamlit runs the script again on every interaction, and
\* with it the assignment of openai.api_key from the environment
ScriptRerun ==
    /\ api_key' = environ
    /\ UNCHANGED << pc, req, temp_filename, audio_file, audio_data, handles,
                    files, resp, remote, failed_before, environ >>

\* ------------------------------------------------------ specifications
\* one request at a time, every request shape, and the sidebar
Next ==
    \/ \E q \in TtsRequests : TtsReceive(1, q)
    \/ TtsRemote(1)
    \/ \E q \in SttRequests : SttReceive(1, q)
    \/ SttCreate(1)
    \/ SttWrite(1)
    \/ SttOpen(1)
    \/ SttRemote(1)
    \/ SttFinally(1)
    \/ Served(1)
    \/ \E k \in KeyInputs : UpdateAPIKey(k)
    \/ ScriptRerun

Spec == Init /\ [][Next]_vars

\* speech_to_text requests in flight together, interleaved step by step
NextConc ==
    \/ \E r \in Slots, q \in ConcRequests : SttReceive(r, q)
    \/ \E r \in Slots : SttCreate(r)
    \/ \E r \in Slots : SttWrite(r)
    \/ \E r \in Slots : SttOpen(r)
    \/ \E r \in Slots : SttRemote(r)
    \/ \E r \in Slots : SttFinally(r)
    \/ \E r \in Slots : Served(r)

\* the server started with the credential set in the environment
InitConc == Init /\ environ = "sk-env"

SpecConc == InitConc /\ [][NextConc]_vars

\* ------------------------------------------------------------- claims
Returned(r) == pc[r] = "done"

IsTts(r) == req[r].endpoint = "tts"
IsStt(r) == req[r].endpoint = "stt"

\* the request carries the multipart field audio_file
CarriesUpload(q) == q.body = "multipart" /\ "audio_file" \in q.keys

\* the request carries the JSON field audio_base64
CarriesBase64(q) == q.body = "object" /\ "audio_base64" \in q.keys

\* the request is a JSON object with a text field
CarriesText(q) == q.body = "object" /\ "text" \in q.keys

\* C1: a /text-to-speech request whose JSON body has no text field, or whose
\* text is the empty string, is answered 400 with an error field.
C1_MissingOrEmptyTextIs400 ==
    \A r \in Slots :
        (Returned(r) /\ IsTts(r) /\ req[r].body = "object"
            /\ (~CarriesText(req[r]) \/ req[r].text = ""))
        => (resp[r].status = 400 /\ "error" \in resp[r].fields)

\* C2: once speech_to_text has returned, on whichever path, no temporary
\* file created by that request exists.
C2_NoTempFileAfterReturn ==
    \A r \in Slots :
        (Returned(r) /\ IsStt(r))
        => \A n \in TempNames : ~(files[n].exists /\ files[n].owner = r)

C2_Witness ==
    /\ Returned(1) /\ IsStt(1)
    /\ temp_filename[1] # 0
    /\ remote[1].outcome = "fail"
    /\ resp[1].status = 500

\* C3: once speech_to_text has returned, on whichever path, neither the
\* writer of the temporary file nor the reader given to the remote call is
\* open.
C3_NoHandleAfterReturn ==
    \A r \in Slots : (Returned(r) /\ IsStt(r)) => handles[r] = {}

C3_Witness ==
    /\ Returned(1) /\ IsStt(1)
    /\ audio_file[1] = "reader"
    /\ remote[1].outcome = "fail"

\* C4: a /speech-to-text request with neither audio_file nor audio_base64 is
\* answered 400, with no remote call and no temporary file.
C4_NoAudioIs400 ==
    \A r \in Slots :
        (Returned(r) /\ IsStt(r)
            /\ ~CarriesUpload(req[r]) /\ ~CarriesBase64(req[r]))
        => (resp[r].status = 400 /\ remote[r].n = 0 /\ temp_filename[r] = 0)

\* C5: a /text-to-speech request with a non-empty text whose remote call
\* succeeds is answered 200, audio/mpeg, with exactly the bytes the remote
\* call returned; the remote call got the request's voice, or alloy when
\* the request names none.
C5_AudioRelayed ==
    \A r \in Slots :
        (Returned(r) /\ IsTts(r) /\ CarriesText(req[r]) /\ req[r].text # ""
            /\ remote[r].outcome = "ok")
        => /\ resp[r].status = 200
           /\ resp[r].ctype = "audio/mpeg"
           /\ resp[r].body = remote[r].audio
           /\ remote[r].input = req[r].text
           /\ remote[r].voice =
                (IF "voice" \in req[r].keys THEN req[r].voice ELSE "alloy")

C5_Witness ==
    /\ Returned(1) /\ IsTts(1)
    /\ req[1].text = "hi" /\ "voice" \notin req[1].keys
    /\ remote[1].outcome = "ok" /\ remote[1].voice = "alloy"
    /\ resp[1].body = <<255, 0, 97>>

\* C6: when audio_base64 is the base64 encoding of bytes b, the stream the
\* remote transcription call reads holds exactly b.
C6_Base64RoundTrip ==
    \A r \in Slots : \A b \in ByteSeqs :
        (IsStt(r) /\ CarriesBase64(req[r]) /\ ~req[r].isnull
            /\ req[r].payload = B64Encode(b) /\ remote[r].n > 0)
        => remote[r].stream = b

C6_Witness ==
    /\ IsStt(1) /\ CarriesBase64(req[1])
    /\ req[1].payload = B64Encode(<<97, 255>>)
    /\ remote[1].n = 1
    /\ remote[1].stream = <<97, 255>>

\* C7: when the remote call fails, the handler answers 500 with the
\* failure's message in error (and its class in type for speech_to_text),
\* and the server goes on serving.
C7_RemoteFailureIs500 ==
    \A r \in Slots :
        (pc[r] \in {"stt_finally", "done"} /\ remote[r].outcome = "fail")
        => /\ resp[r].status = 500
           /\ "error" \in resp[r].fields
           /\ resp[r].error = remote[r].err.msg
           /\ IsStt(r) => ("type" \in resp[r].fields /\ resp[r].type = remote[r].err.type)
           /\ Returned(r) => ENABLED Served(r)

C7_Witness ==
    /\ failed_before
    /\ Returned(1) /\ IsTts(1)
    /\ remote[1].outcome = "fail"
    /\ resp[1].status = 500 /\ resp[1].error = "rate limit"

\* the request gets past the handler's validation (it is not answered 400
\* and its body parses): a JSON object with text, an upload, or a JSON
\* object with audio_base64
PassesValidation(q) ==
    \/ q.endpoint = "tts" /\ CarriesText(q)
    \/ q.endpoint = "stt" /\ (CarriesUpload(q) \/ CarriesBase64(q))

\* C8 as stated: a request that passes validation makes exactly one remote
\* call, a request answered 400 makes none.
C8_ExactlyOneCallWhenValid ==
    \A r \in Slots :
        Returned(r) =>
            /\ resp[r].status = 400 => remote[r].n = 0
            /\ PassesValidation(req[r]) => remote[r].n = 1

\* C8 as amended: no handler calls the remote provider twice for one
\* request; a request answered 400 makes no call; a valid text_to_speech
\* request makes exactly one; a valid speech_to_text request makes exactly
\* one when its audio was decoded, written and reopened, and none when one
\* of those steps failed.
C8_AtMostOneCall ==
    \A r \in Slots :
        /\ remote[r].n <= 1
        /\ Returned(r) =>
            /\ resp[r].status = 400 => remote[r].n = 0
            /\ resp[r].status = 200 => remote[r].n = 1
            /\ (IsTts(r) /\ PassesValidation(req[r])) => remote[r].n = 1
            /\ (IsStt(r) /\ audio_file[r] = "reader") => remote[r].n = 1
            /\ (IsStt(r) /\ audio_file[r] # "reader") => remote[r].n = 0

C8_Witness ==
    /\ Returned(1) /\ IsStt(1)
    /\ remote[1].outcome = "fail"
    /\ remote[1].n = 1

\* C9 as stated: after the initial assignment no step changes
\* openai.api_key.
C9_CredentialNeverChanges == [][api_key' = api_key]_vars

\* C9 as amended: openai.api_key changes only by the sidebar's Update API
\* Key, which sets it and the environment variable to the entered key and
\* touches no request; no handler step and no rerun of the script changes it.
C9_OnlyUpdateChangesCredential ==
    [][api_key' # api_key =>
            /\ api_key' \in KeyInputs
            /\ environ' = api_key'
            /\ UNCHANGED << pc, req, resp, remote, files, handles >>]_vars

C9_Witness ==
    /\ api_key \in KeyInputs
    /\ remote[1].n = 1
    /\ remote[1].key # api_key

\* the bytes a speech_to_text request submits
Submitted(q) ==
    IF q.body = "multipart" THEN q.payload
    ELSE CHOOSE b \in ByteSeqs : B64Encode(b) = q.payload

InFlight(r) == pc[r] \in {"stt_write", "stt_open", "stt_remote"}

\* C10: requests in flight together have distinct temporary files, each its
\* own; at its remote call a request's file exists, its reader is open and
\* the stream holds the bytes it submitted, whatever the others did; its
\* answer is the transcript or the failure of its own call.
C10_RequestsIndependent ==
    \A r \in Slots :
        /\ InFlight(r) =>
            /\ temp_filename[r] # 0
            /\ files[temp_filename[r]].exists
            /\ files[temp_filename[r]].owner = r
            /\ \A s \in Slots \ {r} : InFlight(s) => temp_filename[s] # temp_filename[r]
        /\ remote[r].n > 0 =>
            /\ remote[r].existed
            /\ remote[r].open
            /\ remote[r].stream = Submitted(req[r])
        /\ (Returned(r) /\ remote[r].outcome = "ok") => resp[r] = TextJson(remote[r].transcript)
        /\ (Returned(r) /\ remote[r].outcome = "fail") => resp[r] = SttExcept(remote[r].err)

C10_Witness ==
    /\ pc[1] = "stt_remote"
    /\ pc[2] = "stt_finally" /\ remote[2].outcome = "fail"
    /\ files[temp_filename[2]].exists
    /\ temp_filename[1] # temp_filename[2]

====
